---- MODULE Spec2Model ----
(***************************************************************************)
(* jsv: JSON-Schema validator for CSV (src/src/main.rs).                   *)
(*                                                                         *)
(* The model follows execute() and CsvValidator::validate(): the schema    *)
(* is loaded, the header row is read, and every data row is read,          *)
(* assembled cell by cell into a JSON object (each cell coerced with       *)
(* serde_json::from_str), validated, and counted.                          *)
(*                                                                         *)
(* Texts are sequences of one-character strings.  JSON values are records  *)
(* [kind, body]: body is the decoded characters of a string, the lexeme of *)
(* a number, <<"true">>/<<"false">> for a boolean, <<>> for null, the      *)
(* items of an array, the <<key, value>> members of an object.             *)
(***************************************************************************)
EXTENDS Integers, Sequences, FiniteSets, TLC

---------------------------------------------------------------------------
(* serde_json::from_str, as called at main.rs:160, 164, 165 *)

Quote == "\""

Backslash == "\\"

Whitespace == {" ", "\t", "\n", "\r"}

Digits == {"0", "1", "2", "3", "4", "5", "6", "7", "8", "9"}

HexDigits == Digits \cup {"a", "b", "c", "d", "e", "f", "A", "B", "C", "D", "E", "F"}

\* Characters a JSON string may not hold unescaped (the model's control characters).
ControlChars == {"\t", "\n", "\r"}

ParseFail == [ok |-> FALSE]

ParseOk(kind, body, next) == [ok |-> TRUE, val |-> [kind |-> kind, body |-> body], next |-> next]

CharAt(s, i) == IF i >= 1 /\ i <= Len(s) THEN s[i] ELSE "EOF"

RECURSIVE SkipWs(_, _)
SkipWs(s, i) == IF CharAt(s, i) \in Whitespace THEN SkipWs(s, i + 1) ELSE i

RECURSIVE DigitsEnd(_, _)
DigitsEnd(s, i) == IF CharAt(s, i) \in Digits THEN DigitsEnd(s, i + 1) ELSE i

\* A keyword (true, false, null) must follow in full.
ParseIdent(s, i, word, kind, body) ==
    IF i + Len(word) - 1 <= Len(s) /\ SubSeq(s, i, i + Len(word) - 1) = word
    THEN ParseOk(kind, body, i + Len(word))
    ELSE ParseFail

\* -? (0 | [1-9][0-9]*) (. [0-9]+)? ([eE] [+-]? [0-9]+)?  ; a digit after a
\* leading 0 is "invalid number".
ParseNumber(s, i) ==
    LET j == IF CharAt(s, i) = "-" THEN i + 1 ELSE i
        k == IF CharAt(s, j) = "0" THEN j + 1 ELSE DigitsEnd(s, j)
        m == IF CharAt(s, k) = "." THEN DigitsEnd(s, k + 1) ELSE k
        x == IF CharAt(s, m) \in {"e", "E"}
             THEN (IF CharAt(s, m + 1) \in {"+", "-"} THEN m + 2 ELSE m + 1)
             ELSE m
        n == IF x > m THEN DigitsEnd(s, x) ELSE m
    IN  IF CharAt(s, j) \notin Digits THEN ParseFail
        ELSE IF CharAt(s, j) = "0" /\ CharAt(s, j + 1) \in Digits THEN ParseFail
        ELSE IF CharAt(s, k) = "." /\ m = k + 1 THEN ParseFail
        ELSE IF x > m /\ n = x THEN ParseFail
        ELSE ParseOk("number", SubSeq(s, i, n - 1), n)

Unescape(e) ==
    CASE e = "n" -> "\n"
      [] e = "t" -> "\t"
      [] e = "r" -> "\r"
      [] e = "b" -> "\\b"
      [] e = "f" -> "\\f"
      [] OTHER -> e

\* The characters after an opening quote, up to the closing one.
RECURSIVE ParseStrBody(_, _, _)
ParseStrBody(s, j, acc) ==
    LET c == CharAt(s, j)
        e == CharAt(s, j + 1)
    IN  IF j > Len(s) THEN ParseFail
        ELSE IF c = Quote THEN ParseOk("string", acc, j + 1)
        ELSE IF c = Backslash
        THEN IF j + 1 > Len(s) THEN ParseFail
             ELSE IF e \in {Quote, Backslash, "/", "b", "f", "n", "r", "t"}
             THEN ParseStrBody(s, j + 2, Append(acc, Unescape(e)))
             ELSE IF e = "u"
             THEN IF j + 5 <= Len(s) /\ \A h \in 2..5 : s[j + h] \in HexDigits
                  THEN ParseStrBody(s, j + 6, Append(acc, "\\u"))
                  ELSE ParseFail
             ELSE ParseFail
        ELSE IF c \in ControlChars THEN ParseFail
        ELSE ParseStrBody(s, j + 1, Append(acc, c))

RECURSIVE ParseValue(_, _)
RECURSIVE ParseElements(_, _, _)
RECURSIVE ParseMembers(_, _, _)

\* One JSON value starting at i (whitespace already skipped).
ParseValue(s, i) ==
    LET c == CharAt(s, i)
    IN  IF i > Len(s) THEN ParseFail
        ELSE IF c = "n" THEN ParseIdent(s, i, <<"n", "u", "l", "l">>, "null", <<>>)
        ELSE IF c = "t" THEN ParseIdent(s, i, <<"t", "r", "u", "e">>, "bool", <<"true">>)
        ELSE IF c = "f" THEN ParseIdent(s, i, <<"f", "a", "l", "s", "e">>, "bool", <<"false">>)
        ELSE IF c = "-" \/ c \in Digits THEN ParseNumber(s, i)
        ELSE IF c = Quote THEN ParseStrBody(s, i + 1, <<>>)
        ELSE IF c = "["
        THEN (IF CharAt(s, SkipWs(s, i + 1)) = "]"
              THEN ParseOk("array", <<>>, SkipWs(s, i + 1) + 1)
              ELSE ParseElements(s, SkipWs(s, i + 1), <<>>))
        ELSE IF c = "{"
        THEN (IF CharAt(s, SkipWs(s, i + 1)) = "}"
              THEN ParseOk("object", <<>>, SkipWs(s, i + 1) + 1)
              ELSE ParseMembers(s, SkipWs(s, i + 1), <<>>))
        ELSE ParseFail

\* value (, value)* ]
ParseElements(s, i, acc) ==
    LET v == ParseValue(s, i)
        k == SkipWs(s, v.next)
    IN  IF ~v.ok THEN ParseFail
        ELSE IF CharAt(s, k) = "]" THEN ParseOk("array", Append(acc, v.val), k + 1)
        ELSE IF CharAt(s, k) = "," THEN ParseElements(s, SkipWs(s, k + 1), Append(acc, v.val))
        ELSE ParseFail

\* string : value (, string : value)* }
ParseMembers(s, i, acc) ==
    LET key == ParseStrBody(s, i + 1, <<>>)
        c == SkipWs(s, key.next)
        v == ParseValue(s, SkipWs(s, c + 1))
        k == SkipWs(s, v.next)
    IN  IF CharAt(s, i) # Quote THEN ParseFail
        ELSE IF ~key.ok THEN ParseFail
        ELSE IF CharAt(s, c) # ":" THEN ParseFail
        ELSE IF ~v.ok THEN ParseFail
        ELSE IF CharAt(s, k) = "}"
        THEN ParseOk("object", Append(acc, <<key.val.body, v.val>>), k + 1)
        ELSE IF CharAt(s, k) = ","
        THEN ParseMembers(s, SkipWs(s, k + 1), Append(acc, <<key.val.body, v.val>>))
        ELSE ParseFail

\* serde_json::from_str: exactly one value, whitespace around it, nothing after.
from_str(s) ==
    LET v == ParseValue(s, SkipWs(s, 1))
    IN  IF ~v.ok THEN ParseFail
        ELSE IF SkipWs(s, v.next) # Len(s) + 1 THEN ParseFail
        ELSE [ok |-> TRUE, val |-> v.val]

---------------------------------------------------------------------------
(* Inputs: the schema document and the CSV source *)

\* Bounds of the checked runs.
MaxCols == 2

MaxRows == 2

MaxTextLen == 3

\* Column names of the CSV header row and of the schema's "properties".
FieldNames == {"id", "name"}

\* Values of a property's "type" keyword: two primitive kinds and a composite one.
PropertyTypes == {"string", "integer", "array"}

NoSchema == [properties |-> <<>>, required |-> {}]

\* A schema file that cannot be opened, one that is not JSON, and a JSON document
\* that SchemaConfig::from_schema refuses.
NoFile == [status |-> "no such file", doc |-> NoSchema]

NotJson == [status |-> "not json", doc |-> NoSchema]

Rejected == [status |-> "rejected by from_schema", doc |-> NoSchema]

\* A schema document that loads: a single top-level object definition
\* (main.rs:74-76) with "properties" (name -> "type") and "required".
SchemaDocs ==
    { [status |-> "ok", doc |-> [properties |-> p, required |-> r]] :
        p \in UNION { [d -> PropertyTypes] : d \in SUBSET FieldNames },
        r \in {{}, {"id"}} }

\* Cell texts of the checked runs: 42, 0042, a"b and [4].
RunTexts == { <<"4", "2">>, <<"0", "0", "4", "2">>, <<"a", Quote, "b">>, <<"[", "4", "]">> }

\* A row as the file holds it: its cells, or bytes that are not UTF-8.
BadUtf8Row == [utf8 |-> FALSE, cells |-> <<>>]

HeaderRows == { [utf8 |-> TRUE, cells |-> c] : c \in UNION { [1..n -> FieldNames] : n \in 1..MaxCols } }
              \cup {BadUtf8Row}

RawRows == { [utf8 |-> TRUE, cells |-> c] : c \in UNION { [1..n -> RunTexts] : n \in 1..MaxCols } }
           \cup {BadUtf8Row}

\* Inputs of the coercion checks: one column, declared with any "type" or not at
\* all, and every text of at most MaxTextLen characters of Alphabet, with some
\* other ones: true, null, Bobby, 42, 0042, 4.5, 1e4, {"b":4}.
Alphabet == {"0", "4", "b", Quote, Backslash, "[", "]", " ", "-"}

ExtraTexts ==
    { <<"t", "r", "u", "e">>, <<"n", "u", "l", "l">>, <<"B", "o", "b", "b", "y">>,
      <<"4", "2">>, <<"0", "0", "4", "2">>, <<"4", ".", "5">>, <<"1", "e", "4">>,
      <<"{", Quote, "b", Quote, ":", "4", "}">> }

CoerceTexts == UNION { [1..n -> Alphabet] : n \in 0..MaxTextLen } \cup ExtraTexts

CoerceTypes == {"string", "integer", "number", "boolean", "null", "array", "object"}

CoerceDocs ==
    { [properties |-> p, required |-> {}] :
        p \in UNION { [d -> CoerceTypes] : d \in SUBSET {"id"} } }

WideRows == { [utf8 |-> TRUE, cells |-> <<t>>] : t \in CoerceTexts }

---------------------------------------------------------------------------
(* CsvValidator::validate, the per-record steps *)

\* What csv_reader.records() yields for a row; an error carries no cells.
RecordOk(cells) == [ok |-> TRUE, err |-> "None", len |-> Len(cells), cells |-> cells]

RecordErr(err, len) == [ok |-> FALSE, err |-> err, len |-> len, cells |-> <<>>]

NoRecord == RecordErr("NotRead", 0)

\* A reader that also accepts rows of another length than the header's.
ReadRecordFlexible(hdrs, raw) ==
    IF ~raw.utf8 THEN RecordErr("Utf8", 0)
    ELSE RecordOk(raw.cells)

\* csv_reader.records(): the reader is built with ReaderBuilder::new() and is not
\* flexible, so a row is Ok only if it is UTF-8 and has as many cells as the header.
ReadRecord(hdrs, raw) ==
    IF ~raw.utf8 THEN RecordErr("Utf8", 0)
    ELSE IF Len(raw.cells) # Len(hdrs) THEN RecordErr("UnequalLengths", Len(raw.cells))
    ELSE RecordOk(raw.cells)

\* A check that ignores the schema.
IsStringNever(schema, header) == FALSE

\* schema.properties.<header>.type == "string", false when any link is missing.
IsString(schema, header) ==
    IF header \in DOMAIN schema.properties
    THEN schema.properties[header] = "string"
    ELSE FALSE

\* format!("\"{}\"", field)
Quoted(field) == <<Quote>> \o field \o <<Quote>>

\* A coercion that quotes first and parses the literal only if that fails.
CoerceFieldQuoteFirst(field, is_string) ==
    IF is_string THEN from_str(Quoted(field))
    ELSE IF from_str(Quoted(field)).ok THEN from_str(Quoted(field))
    ELSE from_str(field)

\* maybe_field_value: the quoted parse for a declared string, else the literal
\* parse or_else the quoted parse.
CoerceField(field, is_string) ==
    IF is_string THEN from_str(Quoted(field))
    ELSE IF from_str(field).ok THEN from_str(field)
    ELSE from_str(Quoted(field))

\* let mut record_map = HashMap::new()
NewRecordMap == [h \in {} |-> ParseFail]

\* An insert that leaves a null under the header of a cell that failed.
InsertFieldOrNull(record_map, header, maybe_field_value) ==
    [h \in DOMAIN record_map \cup {header} |->
        IF h = header
        THEN (IF maybe_field_value.ok THEN maybe_field_value.val ELSE [kind |-> "null", body |-> <<>>])
        ELSE record_map[h]]

\* match maybe_field_value: Err => continue, Ok(value) => record_map.insert(header, value)
InsertField(record_map, header, maybe_field_value) ==
    IF ~maybe_field_value.ok THEN record_map
    ELSE [h \in DOMAIN record_map \cup {header} |->
            IF h = header THEN maybe_field_value.val ELSE record_map[h]]

\* for (header, field) in headers.iter().zip(record.iter()), from position i on.
RECURSIVE AssembleFrom(_, _, _, _, _)
AssembleFrom(schema, hdrs, cells, i, record_map) ==
    IF i > Len(hdrs) \/ i > Len(cells) THEN record_map
    ELSE AssembleFrom(schema, hdrs, cells, i + 1,
            InsertField(record_map, hdrs[i], CoerceField(cells[i], IsString(schema, hdrs[i]))))

\* The record handed to the schema validator.
Assemble(schema, hdrs, cells) == AssembleFrom(schema, hdrs, cells, 1, NewRecordMap)

\* A number lexeme with no fraction and no exponent.
IsIntegerLexeme(body) == \A i \in 1..Len(body) : body[i] \notin {".", "e", "E"}

\* The "type" keyword of the schema validator.
TypeMatches(type, val) ==
    CASE type = "string" -> val.kind = "string"
      [] type = "integer" -> val.kind = "number" /\ IsIntegerLexeme(val.body)
      [] type = "number" -> val.kind = "number"
      [] type = "boolean" -> val.kind = "bool"
      [] type = "null" -> val.kind = "null"
      [] type = "array" -> val.kind = "array"
      [] type = "object" -> val.kind = "object"
      [] OTHER -> TRUE

\* self.schema_config.validate(&record_value): the errors it yields, one per
\* property of the wrong type and one per required property that is missing.
Violations(schema, value) ==
    { <<"type", h>> : h \in { k \in DOMAIN schema.properties \cap DOMAIN value :
                                ~TypeMatches(schema.properties[k], value[k]) } }
    \cup { <<"required", h>> : h \in schema.required \ DOMAIN value }

\* A count of the violations instead of the records.
CountErrorsPerViolation(violations, errors) == errors + Cardinality(violations)

\* Ok(_) => success_count += 1
CountSuccess(violations, successes) ==
    IF violations = {} THEN successes + 1 ELSE successes

\* Err(e) => error_count += 1
CountError(violations, errors) ==
    IF violations = {} THEN errors ELSE errors + 1

\* An outcome that takes a run without successes for a failed one.
RunOutcomeNeedsSuccess(successes, errors) ==
    IF errors = 0 /\ successes > 0 THEN [ok |-> TRUE, num |-> successes]
    ELSE [ok |-> FALSE, num |-> errors]

\* if error_count == 0 { Ok(success_count) } else { Err(error_count) }
RunOutcome(successes, errors) ==
    IF errors = 0 THEN [ok |-> TRUE, num |-> successes] ELSE [ok |-> FALSE, num |-> errors]

NoResult == [ok |-> FALSE, num |-> -1]

---------------------------------------------------------------------------
(* State *)

VARIABLES
    pc,             \* where the run is
    schema_file,    \* the file at the --schema path: NoFile, NotJson, Rejected or a document
    csv_file,       \* the file at the csv-file path: "no such file" or "open"
    schema_config,  \* validator.schema_config
    headers,        \* the header row
    record_index,   \* index of the next result of csv_reader.records()
    record,         \* the result read from csv_reader.records() in this iteration
    record_value,   \* the record assembled in this iteration
    success_count,
    error_count,
    result,         \* what validate() returned
    stdout,         \* the line execute()/main() printed
    validated,      \* history: number of calls of schema_config.validate
    read_ok         \* history: number of rows read as Ok

vars == <<pc, schema_file, csv_file, schema_config, headers, record_index, record,
          record_value, success_count, error_count, result, stdout, validated, read_ok>>

loopVars == <<headers, record_index, record, record_value, success_count, error_count,
              validated, read_ok>>

Init ==
    /\ pc = "execute"
    /\ schema_file \in {NoFile, NotJson, Rejected} \cup SchemaDocs
    /\ csv_file \in {"no such file", "open"}
    /\ schema_config = NoSchema
    /\ headers = <<>>
    /\ record_index = 0
    /\ record = NoRecord
    /\ record_value = NewRecordMap
    /\ success_count = 0
    /\ error_count = 0
    /\ result = NoResult
    /\ stdout = "none"
    /\ validated = 0
    /\ read_ok = 0

\* execute(), main.rs:44-50: open both files; a failure is returned and printed by main.
OpenFiles ==
    /\ pc = "execute"
    /\ IF schema_file = NoFile
       THEN pc' = "exit" /\ stdout' = "failed to open schema file"
       ELSE IF csv_file = "no such file"
       THEN pc' = "exit" /\ stdout' = "failed to open csv file"
       ELSE pc' = "load" /\ stdout' = stdout
    /\ UNCHANGED <<schema_file, csv_file, schema_config, result>>
    /\ UNCHANGED loopVars

\* execute(), main.rs:52-60: parse the schema, build the SchemaConfig (unwrap) and
\* the validator.  A document whose properties declare a composite type loads
\* like any other.
LoadSchema ==
    /\ pc = "load"
    /\ IF schema_file = NotJson
       THEN pc' = "exit" /\ stdout' = "failed to parse schema as JSON" /\ schema_config' = schema_config
       ELSE IF schema_file = Rejected
       THEN pc' = "panicked" /\ stdout' = stdout /\ schema_config' = schema_config
       ELSE pc' = "headers" /\ stdout' = stdout /\ schema_config' = schema_file.doc
    /\ UNCHANGED <<schema_file, csv_file, result>>
    /\ UNCHANGED loopVars

\* validate(), main.rs:125-131: read the header row (unwrap) and zero the counters.
ReadHeaders ==
    /\ pc = "headers"
    /\ \E row \in HeaderRows :
         IF ~row.utf8
         THEN pc' = "panicked" /\ headers' = headers
         ELSE pc' = "records" /\ headers' = row.cells
    /\ success_count' = 0
    /\ error_count' = 0
    /\ UNCHANGED <<schema_file, csv_file, schema_config, record_index, record, record_value,
                   result, stdout, validated, read_ok>>

\* A skip that leaves the loop (break for continue).
SkipRecordBreaks ==
    /\ pc = "records"
    /\ record_index < MaxRows
    /\ \E raw \in RawRows :
         /\ ~ReadRecord(headers, raw).ok
         /\ record' = ReadRecord(headers, raw)
    /\ record_index' = record_index + 1
    /\ result' = RunOutcome(success_count, error_count)
    /\ pc' = "report"
    /\ UNCHANGED <<schema_file, csv_file, schema_config, headers, record_value,
                   success_count, error_count, stdout, validated, read_ok>>

\* validate(), main.rs:132-137: a row that could not be read is reported and
\* skipped (continue).
SkipRecord ==
    /\ pc = "records"
    /\ record_index < MaxRows
    /\ \E raw \in RawRows :
         /\ ~ReadRecord(headers, raw).ok
         /\ record' = ReadRecord(headers, raw)
    /\ record_index' = record_index + 1
    /\ UNCHANGED <<pc, schema_file, csv_file, schema_config, headers, record_value,
                   success_count, error_count, result, stdout, validated, read_ok>>

\* validate(), main.rs:132-178: a row that was read is assembled into record_value.
AssembleRecord(rows) ==
    /\ pc = "records"
    /\ record_index < MaxRows
    /\ \E raw \in rows :
         /\ ReadRecord(headers, raw).ok
         /\ record' = ReadRecord(headers, raw)
         /\ record_value' = Assemble(schema_config, headers, ReadRecord(headers, raw).cells)
    /\ record_index' = record_index + 1
    /\ read_ok' = read_ok + 1
    /\ pc' = "validate"
    /\ UNCHANGED <<schema_file, csv_file, schema_config, headers, success_count, error_count,
                   result, stdout, validated>>

\* validate(), main.rs:180-193: the record is validated and counted; the
\* iteration ends and its record and record_map are dropped.
ValidateRecord ==
    /\ pc = "validate"
    /\ validated' = validated + 1
    /\ success_count' = CountSuccess(Violations(schema_config, record_value), success_count)
    /\ error_count' = CountError(Violations(schema_config, record_value), error_count)
    /\ record' = NoRecord
    /\ record_value' = NewRecordMap
    /\ pc' = "records"
    /\ UNCHANGED <<schema_file, csv_file, schema_config, headers, record_index, result,
                   stdout, read_ok>>

\* validate(), main.rs:195-196: the source is exhausted.
EndOfRecords ==
    /\ pc = "records"
    /\ result' = RunOutcome(success_count, error_count)
    /\ pc' = "report"
    /\ UNCHANGED <<schema_file, csv_file, schema_config, stdout>>
    /\ UNCHANGED loopVars

\* execute(), main.rs:64-69: print the summary line and return Ok(()).
Report ==
    /\ pc = "report"
    /\ stdout' = IF result.ok THEN "Successfully validated" ELSE "Validation failed"
    /\ pc' = "exit"
    /\ UNCHANGED <<schema_file, csv_file, schema_config, result>>
    /\ UNCHANGED loopVars

Next ==
    \/ OpenFiles
    \/ LoadSchema
    \/ ReadHeaders
    \/ SkipRecord
    \/ AssembleRecord(RawRows)
    \/ ValidateRecord
    \/ EndOfRecords
    \/ Report

Spec == Init /\ [][Next]_vars

\* The coercion checks: validate() at its first record, over one column, with
\* every text of CoerceTexts as the cell.
InitCoerce ==
    /\ pc = "records"
    /\ schema_file \in { [status |-> "ok", doc |-> d] : d \in CoerceDocs }
    /\ csv_file = "open"
    /\ schema_config = schema_file.doc
    /\ headers = <<"id">>
    /\ record_index = 0
    /\ record = NoRecord
    /\ record_value = NewRecordMap
    /\ success_count = 0
    /\ error_count = 0
    /\ result = NoResult
    /\ stdout = "none"
    /\ validated = 0
    /\ read_ok = 0

NextCoerce ==
    \/ AssembleRecord(WideRows)
    \/ ValidateRecord

SpecCoerce == InitCoerce /\ [][NextCoerce]_vars

---------------------------------------------------------------------------
(* Properties *)

PrimitiveKinds == {"string", "number", "bool", "null"}

Text42 == <<"4", "2">>

Text0042 == <<"0", "0", "4", "2">>

TextBobby == <<"B", "o", "b", "b", "y">>

\* The schema entry properties.<h>.type is exactly "string".
DeclaredString(h) ==
    h \in DOMAIN schema_config.properties /\ schema_config.properties[h] = "string"

HasChar(t, c) == \E k \in 1..Len(t) : t[k] = c

\* No policy coerces the text: the quoted parse fails and, for a column that is
\* not a declared string, the literal parse fails too.
Uncoercible(t, declared_string) ==
    ~from_str(Quoted(t)).ok /\ (declared_string \/ ~from_str(t).ok)

\* The step reads a row and the read fails.
FailedRead == record_index' = record_index + 1 /\ ~record'.ok

CountsUnchanged ==
    /\ success_count' = success_count
    /\ error_count' = error_count
    /\ validated' = validated
    /\ read_ok' = read_ok

\* C1: in a column declared "string", a cell that coerces is put in the record
\* as a JSON string, never as a number, boolean or null, whatever its text: the
\* literal parse is not tried, so 0042 gives the string "0042" and a text
\* without escapes gives the string of exactly its characters.
C1_DeclaredStringIsString ==
    pc = "validate" =>
        \A i \in 1..Len(record.cells) :
            (DeclaredString(headers[i]) /\ headers[i] \in DOMAIN record_value) =>
                /\ record_value[headers[i]].kind = "string"
                /\ ~HasChar(record.cells[i], Backslash) =>
                       record_value[headers[i]].body = record.cells[i]

C1_Witness ==
    /\ pc = "validate"
    /\ DeclaredString("id")
    /\ record.cells = <<Text0042>>
    /\ record_value = [h \in {"id"} |-> [kind |-> "string", body |-> Text0042]]

\* C2: in a column not declared "string", the literal parse comes first and the
\* quoted parse only after it failed: a cell that is a valid JSON literal gives
\* that literal's value (42 the number 42), any other cell that coerces gives a
\* string (Bobby the string "Bobby").
C2_LiteralThenQuoted ==
    pc = "validate" =>
        \A i \in 1..Len(record.cells) :
            (~DeclaredString(headers[i]) /\ headers[i] \in DOMAIN record_value) =>
                LET t == record.cells[i]
                    v == record_value[headers[i]]
                IN  /\ from_str(t).ok => v = from_str(t).val
                    /\ ~from_str(t).ok => v.kind = "string"
                    /\ t = Text42 => v = [kind |-> "number", body |-> Text42]
                    /\ t = TextBobby => v = [kind |-> "string", body |-> TextBobby]

C2_Witness ==
    /\ pc = "validate"
    /\ ~DeclaredString("id")
    /\ record.cells = <<Text42>>
    /\ record_value = [h \in {"id"} |-> [kind |-> "number", body |-> Text42]]

\* C3: once validate() has returned, its result is Ok(success_count) exactly
\* when error_count is 0 and Err(error_count) otherwise; a run in which no row
\* was read successfully returns Ok(0).
C3_BinaryOutcome ==
    (pc = "report" \/ (pc = "exit" /\ result # NoResult)) =>
        /\ result.ok <=> error_count = 0
        /\ result.ok => result.num = success_count
        /\ ~result.ok => result.num = error_count
        /\ read_ok = 0 => result = [ok |-> TRUE, num |-> 0]

C3_Witness ==
    /\ pc = "report"
    /\ record_index = MaxRows
    /\ read_ok = 0
    /\ result = [ok |-> TRUE, num |-> 0]

\* C4: a step that reads a malformed row only skips it: the run stays in the
\* loop with no result yet, nothing is assembled or handed to the validator,
\* and neither counter changes.
C4_MalformedRowSkipped ==
    [][FailedRead =>
        /\ pc = "records" /\ pc' = "records"
        /\ result' = NoResult
        /\ record_value' = NewRecordMap
        /\ CountsUnchanged]_vars

\* A well-formed row is being processed after a malformed one was skipped.
C4_Witness ==
    /\ pc = "validate"
    /\ record.ok
    /\ record_index = 2
    /\ read_ok = 1

\* A header is left out of the assembled record when every cell under it is
\* uncoercible, and is in it when the cell at position i coerces.
FieldsOmitted ==
    \A i \in 1..Len(record.cells) :
        LET h == headers[i]
            same == { j \in 1..Len(record.cells) : headers[j] = h }
        IN  /\ (\A j \in same : Uncoercible(record.cells[j], DeclaredString(h)))
                   => h \notin DOMAIN record_value
            /\ ~Uncoercible(record.cells[i], DeclaredString(h))
                   => h \in DOMAIN record_value

HasUncoercible ==
    \E i \in 1..Len(record.cells) : Uncoercible(record.cells[i], DeclaredString(headers[i]))

\* C5: a cell that cannot be coerced leaves no entry under its header (no null,
\* no default), the other cells of the row are still in the record, and the
\* record is still validated and counted exactly once.
C5_UncoercibleFieldOmitted ==
    /\ [](pc = "validate" => FieldsOmitted)
    /\ [][(pc = "validate" /\ HasUncoercible) =>
            /\ pc' = "records"
            /\ validated' = validated + 1
            /\ success_count' + error_count' = success_count + error_count + 1]_vars

\* A row of two columns: the cell under id cannot be coerced, the one under
\* name is in the record.
C5_Witness ==
    /\ pc = "validate"
    /\ headers = <<"id", "name">>
    /\ Uncoercible(record.cells[1], DeclaredString("id"))
    /\ DOMAIN record_value = {"name"}

\* C6 as stated: a row with another number of cells than the header is assembled
\* (zipped up to the shorter length) and goes to the validator.
C6_RaggedRowAssembled ==
    [][(record_index' = record_index + 1 /\ record'.err # "Utf8" /\ record'.len # Len(headers))
          => pc' = "validate"]_vars

\* C6 amended: a row with another number of cells than the header is a read
\* error of the reader: it is skipped without a fatal error, nothing is
\* assembled or validated for it and no counter changes; every row that is
\* assembled has exactly as many cells as the header.
C6_RaggedRowSkipped ==
    /\ [](pc = "validate" => Len(record.cells) = Len(headers))
    /\ [][(record_index' = record_index + 1 /\ record'.err = "UnequalLengths") =>
            /\ pc' = "records"
            /\ record'.len # Len(headers)
            /\ record_value' = NewRecordMap
            /\ CountsUnchanged]_vars

C6_Witness ==
    /\ pc = "records"
    /\ record.err = "UnequalLengths"
    /\ Len(headers) = 2
    /\ record.len = 1
    /\ validated = 0

\* C7: a schema with a property of a composite type is refused at load time,
\* before the header row or any record is read.
C7_CompositeTypeRefused ==
    (schema_file.status = "ok" /\
     \E h \in DOMAIN schema_file.doc.properties :
         schema_file.doc.properties[h] \in {"array", "object"})
        => pc \in {"execute", "load", "panicked"} \/ (pc = "exit" /\ result = NoResult)

\* C8: every value of the record handed to the validator is a string, number,
\* boolean or null.
C8_OnlyPrimitiveValues ==
    pc = "validate" =>
        \A h \in DOMAIN record_value : record_value[h].kind \in PrimitiveKinds

\* C9: the run panics only for a problem of the configuration, never for one of
\* the CSV data.
C9_NoPanicFromData == pc = "panicked" => schema_file = Rejected

\* C10: at every loop head and after the loop, success_count + error_count is
\* the number of rows read successfully; a validated record adds exactly 1 to
\* exactly one counter (success_count if the validator accepts, error_count if
\* it reports any number of violations), no other step changes a counter, and
\* every entry of the assembled record comes from a cell of the current row.
C10_CountersCountRecords ==
    /\ [](success_count + error_count = read_ok - (IF pc = "validate" THEN 1 ELSE 0))
    /\ [](pc = "validate" =>
            \A h \in DOMAIN record_value : \E i \in 1..Len(record.cells) : headers[i] = h)
    /\ [][/\ pc = "validate" =>
                 IF Violations(schema_config, record_value) = {}
                 THEN success_count' = success_count + 1 /\ error_count' = error_count
                 ELSE error_count' = error_count + 1 /\ success_count' = success_count
          /\ pc # "validate" =>
                 success_count' = success_count /\ error_count' = error_count]_vars

\* One record accepted and one rejected.
C10_Witness ==
    /\ pc = "records"
    /\ success_count = 1
    /\ error_count = 1
    /\ read_ok = 2

====
